---------------------------- MODULE Spec2Model ----------------------------
(***************************************************************************)
(* A model of partialzip (src/src/partzip.rs): the range stream            *)
(* PartialReader (new / read / seek) and the archive session PartialZip    *)
(* (new / list / download).                                                *)
(*                                                                         *)
(* u64 and i64 are modelled as WordBits-bit unsigned and two's-complement  *)
(* signed words: 0..UMax stands for 0..2^64-1 and IMin..IMax for           *)
(* -2^63..2^63-1.  Checked arithmetic yields None exactly where the        *)
(* WordBits-bit result would not fit.                                      *)
(***************************************************************************)
EXTENDS Integers, Sequences, FiniteSets, TLC

VARIABLES
    phase,      \* "none" before construction, "ready" once built, "failed"
    file_size,  \* PartialReader.file_size
    pos,        \* PartialReader.pos
    server,     \* how the remote server answers a range request
    dir,        \* the directory ZipArchive parsed: a sequence of entries
    parsed,     \* whether ZipArchive::new (the directory parse) was started
    last,       \* the last call: its operation, inputs and result
    lists       \* the results of the list() calls so far (the last two kept)

vars == <<phase, file_size, pos, server, dir, parsed, last, lists>>

---------------------------------------------------------------------------
\* Bounds of the model.

\* width of the modelled machine word (u64 / i64 scaled down)
WordBits == 3
\* largest buffer length handed to read
MaxBufLen == 3
\* largest number of entries in an archive directory
MaxEntries == 2

UMax == 2^WordBits - 1
IMax == 2^(WordBits - 1) - 1
IMin == 0 - 2^(WordBits - 1)

\* Option::None of a checked operation or a failed conversion
None == -1

Min(a, b) == IF a <= b THEN a ELSE b

\* a slice's length never exceeds isize::MAX
BufLens == 0..Min(MaxBufLen, IMax)

---------------------------------------------------------------------------
\* Integer helpers, as the code computes them.

\* u64::checked_add
CheckedAdd(a, b) == IF a + b > UMax THEN None ELSE a + b

\* u64::checked_sub
CheckedSub(a, b) == IF a - b < 0 THEN None ELSE a - b

\* i64::wrapping_neg: the minimum value is its own negation
WrappingNeg(n) == IF n = IMin THEN IMin ELSE 0 - n

\* u64::value_from(i64): fails on a negative value
ValueFromI64(n) == IF n < 0 THEN None ELSE n

\* f64 / usize .to_u64(): None for a value that is no u64 (curl reports an
\* unknown content length as -1)
ToU64(x) == IF x < 0 \/ x > UMax THEN None ELSE x

---------------------------------------------------------------------------
\* The remote resource and the server.

\* the byte of the remote resource at offset i (the reference content)
Byte(i) == (7 * i + 3) % 256

\* bytes lo..hi of the resource, as a sequence
Slice(lo, hi) == [k \in 1..(hi - lo + 1) |-> Byte(lo + k - 1)]

\* the body the server sends for the range request start-end: a server that
\* honours ranges sends that interval (cut at the end of the resource), one
\* that ignores the header sends the whole resource
ServerBody(srv, start, end, fs) ==
    IF srv = "ranged" THEN Slice(start, Min(end, fs - 1)) ELSE Slice(0, fs - 1)

Servers == {"ranged", "full"}

---------------------------------------------------------------------------
\* The record of a call.

\* a result: Ok(val) with the bytes produced, or Err(err) with the error it
\* wraps (cause); wire holds the range requests the call issued
Ok(val, wire, data) ==
    [ok |-> TRUE, val |-> val, err |-> "", cause |-> "", wire |-> wire, data |-> data]

Err(err, cause, wire) ==
    [ok |-> FALSE, val |-> 0, err |-> err, cause |-> cause, wire |-> wire,
     data |-> <<>>]

\* a call: the operation, its inputs (style / n, or arg), the position on
\* entry, the operation called before it, and its result
Call(op, style, n, arg, entry, prev, r) ==
    [op |-> op, style |-> style, n |-> n, arg |-> arg, entryPos |-> entry,
     prev |-> prev, ok |-> r.ok, val |-> r.val, err |-> r.err,
     cause |-> r.cause, wire |-> r.wire, data |-> r.data]

NoCall == Call("none", "", 0, <<>>, 0, "none", Ok(0, <<>>, <<>>))

\* the name under which a call is remembered by the next one
OpName(c) == IF c.op = "seek" THEN c.style ELSE c.op

---------------------------------------------------------------------------
\* PartialReader::read

\* a strict end-of-stream test (position equal to the size not caught)
AtEndStrict(p, fs) == p > fs

\* the end-of-stream test at the top of read
AtEnd(p, fs) == p >= fs

\* start + buf.len() - 1, checked: None on overflow or underflow
MaybeEnd(start, len) ==
    LET a == CheckedAdd(start, len)
    IN  IF a = None THEN None ELSE CheckedSub(a, 1)

\* the last byte asked for, without the "- 1" of the inclusive interval
RangeEndOffByOne(start, len, fs) ==
    LET m == CheckedAdd(start, len)
        l == CheckedSub(fs, 1)
    IN  IF m = None \/ l = None THEN None ELSE Min(m, l)

\* the last byte asked for: min(maybe_end, file_size - 1); None when a
\* checked operation fails
RangeEnd(start, len, fs) ==
    LET m == MaybeEnd(start, len)
        l == CheckedSub(fs, 1)
    IN  IF m = None \/ l = None THEN None ELSE Min(m, l)

\* whether the byte-range computation yields a request (no data error)
RangeOk(start, len, fs) ==
    /\ RangeEnd(start, len, fs) # None
    /\ RangeEnd(start, len, fs) >= start

\* a transfer that is performed a second time
WireRetried(req) == <<req, req>>

\* the requests one transfer.perform() puts on the wire: the range, once
Wire(req) == <<req>>

\* the number of bytes copied into the caller's buffer
Copied(content, len) == Min(Len(content), len)

\* a position advanced one byte too far
AdvanceOneMore(p, n) == CheckedAdd(p, n + 1)

\* the position after n bytes were obtained: pos.checked_add(n)
Advance(p, n) == CheckedAdd(p, n)

\* the result of read(buf) with len = buf.len(), `transfer` the outcome of
\* the one transfer it may perform: the call record's fields and the new pos
ReadResult(p, fs, len, srv, transfer) ==
    IF AtEnd(p, fs)
    THEN [res |-> Ok(0, <<>>, <<>>), pos |-> p]
    ELSE IF ~RangeOk(p, len, fs)
    THEN [res |-> Err("InvalidData", "", <<>>), pos |-> p]
    ELSE LET end == RangeEnd(p, len, fs)
             req == Wire(<<p, end>>)
             content == ServerBody(srv, p, end, fs)
             n == Copied(content, len)
             np == Advance(p, n)
         IN  IF transfer = "fail"
             THEN [res |-> Err("Transport", "", req), pos |-> p]
             ELSE IF np = None
             THEN [res |-> Err("InvalidData", "", req), pos |-> p]
             ELSE [res |-> Ok(n, req, SubSeq(content, 1, n)), pos |-> np]

Read(len, transfer) ==
    /\ phase = "ready"
    /\ LET r == ReadResult(pos, file_size, len, server, transfer)
       IN  /\ pos' = r.pos
           /\ last' = Call("read", "", len, <<>>, pos, OpName(last), r.res)
    /\ UNCHANGED <<phase, file_size, server, dir, parsed, lists>>

---------------------------------------------------------------------------
\* PartialReader::seek

\* the magnitude of a negative offset: u64::value_from(offset.wrapping_neg())
NegMagnitude(offset) == ValueFromI64(WrappingNeg(offset))

\* the result of seek(End(offset)) / seek(Current(offset)) from `base`
SeekRelative(base, offset, p) ==
    IF offset >= 0
    THEN LET np == CheckedAdd(base, ValueFromI64(offset))
         IN  IF np = None
             THEN [res |-> Err("InvalidInput", "", <<>>), pos |-> p]
             ELSE [res |-> Ok(np, <<>>, <<>>), pos |-> np]
    ELSE LET m == NegMagnitude(offset)
             np == IF m = None THEN None ELSE CheckedSub(base, m)
         IN  IF m = None
             THEN [res |-> Err("InvalidData", "", <<>>), pos |-> p]
             ELSE IF np = None
             THEN [res |-> Err("InvalidInput", "", <<>>), pos |-> p]
             ELSE [res |-> Ok(np, <<>>, <<>>), pos |-> np]

\* the position seek(Start(n)) sets
SeekStartTarget(n) == n

SeekStart(n) ==
    /\ phase = "ready"
    /\ pos' = SeekStartTarget(n)
    /\ last' = Call("seek", "Start", n, <<>>, pos, OpName(last),
                    Ok(SeekStartTarget(n), <<>>, <<>>))
    /\ UNCHANGED <<phase, file_size, server, dir, parsed, lists>>

SeekEnd(n) ==
    /\ phase = "ready"
    /\ LET r == SeekRelative(file_size, n, pos)
       IN  /\ pos' = r.pos
           /\ last' = Call("seek", "End", n, <<>>, pos, OpName(last), r.res)
    /\ UNCHANGED <<phase, file_size, server, dir, parsed, lists>>

SeekCurrent(n) ==
    /\ phase = "ready"
    /\ LET r == SeekRelative(pos, n, pos)
       IN  /\ pos' = r.pos
           /\ last' = Call("seek", "Current", n, <<>>, pos, OpName(last), r.res)
    /\ UNCHANGED <<phase, file_size, server, dir, parsed, lists>>

---------------------------------------------------------------------------
\* The range stream on its own: a constructed PartialReader driven through
\* read and seek.

StreamInit ==
    /\ phase = "ready"
    /\ file_size \in 0..UMax
    /\ pos = 0
    /\ server \in Servers
    /\ dir = <<>>
    /\ parsed = FALSE
    /\ last = NoCall
    /\ lists = <<>>

StreamNext ==
    \/ \E len \in BufLens, transfer \in {"ok", "fail"} : Read(len, transfer)
    \/ \E n \in 0..UMax : SeekStart(n)
    \/ \E n \in IMin..IMax : SeekEnd(n)
    \/ \E n \in IMin..IMax : SeekCurrent(n)

SpecStream == StreamInit /\ [][StreamNext]_vars

Spec == SpecStream

---------------------------------------------------------------------------
\* PartialReader::new and PartialZip::new

\* the status of a response that carries the requested range
PartialContent == 206
\* the content length a one-byte range response declares
ProbeLength == 1

\* what a request may come back with: the transfer fails, or a response
\* arrives with a status and a declared content length (-1: none declared)
Responses(lengths, statuses) ==
    [perform : {"ok", "fail"}, length : lengths, status : statuses]

\* a probe check that looks at the declared length only
ProbeAcceptsAnyStatus(head_size, status) == head_size = ProbeLength

\* whether the `bytes=0-0` probe's response counts as range support
ProbeAccepts(head_size, status) ==
    head_size = ProbeLength /\ status = PartialContent

\* PartialReader::new: the error it returns, or Ok(file_size).  A transfer
\* that fails (perform = "fail") stands for every curl::Error of the call.
ReaderNew(url_ok, must_ranged, head, probe) ==
    IF ~url_ok THEN Err("InvalidUrl", "", <<>>)
    ELSE IF head.perform = "fail" THEN Err("CURLError", "", <<>>)
    ELSE IF ToU64(head.length) = None THEN Err("ZipRsError", "Io(InvalidData)", <<>>)
    ELSE IF ~must_ranged THEN Ok(ToU64(head.length), <<>>, <<>>)
    ELSE IF probe.perform = "fail" THEN Err("CURLError", "", <<>>)
    ELSE IF ToU64(probe.length) = None THEN Err("ZipRsError", "Io(InvalidData)", <<>>)
    ELSE IF ~ProbeAccepts(ToU64(probe.length), probe.status)
    THEN Err("RangeNotSupported", "", <<>>)
    ELSE Ok(ToU64(head.length), <<>>, <<>>)

\* the compression methods the crate marks as supported
SupportedMethods == {"Stored", "Deflated", "Bzip2", "Zstd"}

\* the entries an archive directory is drawn from; two of them share a name
Catalogue ==
    { [name |-> "a.txt", compressed_size |-> 2, method |-> "Stored"],
      [name |-> "b.bin", compressed_size |-> 1, method |-> "Deflated"],
      [name |-> "c.bz2", compressed_size |-> 1, method |-> "Bzip2"],
      [name |-> "d.zst", compressed_size |-> 2, method |-> "Zstd"],
      [name |-> "e.7z", compressed_size |-> 1, method |-> "Unsupported(14)"],
      [name |-> "a.txt", compressed_size |-> 1, method |-> "Unsupported(14)"] }

\* the directories of at most MaxEntries entries
Dirs == UNION { [1..k -> Catalogue] : k \in 0..MaxEntries }

\* the offset in the stream at which entry i lies (entries lie back to back
\* from offset 0, the directory behind them)
HeaderStart(d, i) ==
    LET RECURSIVE Sum(_)
        Sum(k) == IF k = 0 THEN 0 ELSE Sum(k - 1) + d[k].compressed_size
    IN  Sum(i - 1)

\* the size of the archive holding directory d: the entries' data and one
\* unit of directory per entry
ArchiveSize(d) == HeaderStart(d, Len(d) + 1) + Len(d)

\* PartialZip::new: build the reader, then hand it (buffered) to
\* ZipArchive::new, which parses the directory d or fails.  The parse reads
\* the tail of the archive through the BufReader, whose fill runs to the end
\* of the resource: the stream is left at file_size.  The directory is one
\* an archive of that size can hold.  The server's answer to
\* the probe goes with its kind: one that ignores ranges answers 200.
New(url_ok, must_ranged, head, probe, parse, d) ==
    /\ phase = "none"
    /\ server = "full" => probe.status = 200
    /\ server = "ranged" => probe.status # 200
    /\ LET r == ReaderNew(url_ok, must_ranged, head, probe)
           arg == [url_ok |-> url_ok, must_ranged |-> must_ranged,
                   head |-> head, probe |-> probe, parse |-> parse]
       IN  IF ~r.ok
           THEN /\ phase' = "failed"
                /\ last' = Call("new", "", 0, arg, pos, OpName(last), r)
                /\ d = <<>>
                /\ UNCHANGED <<file_size, pos, dir, parsed>>
           ELSE IF parse = "fail"
           THEN /\ phase' = "failed"
                /\ parsed' = TRUE
                /\ last' = Call("new", "", 0, arg, pos, OpName(last),
                                Err("ZipRsError", "InvalidArchive", <<>>))
                /\ d = <<>>
                /\ UNCHANGED <<file_size, pos, dir>>
           ELSE /\ phase' = "ready"
                /\ ArchiveSize(d) <= r.val
                /\ parsed' = TRUE
                /\ file_size' = r.val
                /\ pos' = r.val
                /\ dir' = d
                /\ last' = Call("new", "", 0, arg, pos, OpName(last),
                                Ok(r.val, <<>>, <<>>))
    /\ UNCHANGED <<server, lists>>

\* Construction on its own: one call of PartialZip::new against a server.
OpenInit ==
    /\ phase = "none"
    /\ file_size = 0
    /\ pos = 0
    /\ server \in Servers
    /\ dir = <<>>
    /\ parsed = FALSE
    /\ last = NoCall
    /\ lists = <<>>

OpenNext ==
    /\ phase = "none"
    /\ \E url_ok \in BOOLEAN, must_ranged \in BOOLEAN,
          head \in Responses({-1} \cup 0..UMax, {200}),
          probe \in Responses({-1, 0, 1, 2}, {200, 206, 416}),
          parse \in {"ok", "fail"}, d \in Dirs :
           New(url_ok, must_ranged, head, probe, parse, d)

SpecOpen == OpenInit /\ [][OpenNext]_vars

---------------------------------------------------------------------------
\* PartialZip::list and PartialZip::download, over the parsed directory.
\* ZipArchive::by_index and by_name hand back a reader over the entry, for
\* which the library seeks and reads the underlying stream: a lookup may
\* fail although the directory holds the entry.

\* whether the crate marks a compression method as supported
Supported(method) == method \in SupportedMethods

\* the PartialZipFile list() pushes for an entry
FileOf(e) ==
    [name |-> e.name, compressed_size |-> e.compressed_size,
     compression_method |-> e.method, supported |-> Supported(e.method)]

\* the indices before the first failed lookup (a listing that stops at the
\* first error instead of going on)
KeptUntilError(d, oks) ==
    SelectSeq([i \in 1..Len(d) |-> i], LAMBDA i : \A j \in 1..i : j \in oks)

\* the indices 1..Len(d) whose lookup succeeded, in index order
Kept(d, oks) == SelectSeq([i \in 1..Len(d) |-> i], LAMBDA i : i \in oks)

\* the list list() returns when exactly the lookups of `oks` succeed
ListResult(d, oks) ==
    LET idx == Kept(d, oks)
    IN  [k \in 1..Len(idx) |-> FileOf(d[idx[k]])]

\* where a lookup of entry i leaves the stream: it seeks to the entry and
\* reads it through the BufReader, whose fill runs to the end of the
\* resource; a read that fails leaves the stream where the seek put it
LookupPos(d, i, ok, fs) == IF ok THEN fs ELSE HeaderStart(d, i)

\* the last two list results
Remember(ls, l) == IF Len(ls) = 2 THEN <<ls[2], l>> ELSE Append(ls, l)

List(oks) ==
    /\ phase = "ready"
    /\ oks \subseteq 1..Len(dir)
    /\ LET files == ListResult(dir, oks)
       IN  /\ last' = Call("list", "", Len(files), oks, pos, OpName(last),
                           Ok(Len(files), <<>>, files))
           /\ lists' = Remember(lists, [oks |-> oks, files |-> files])
    /\ pos' = IF Len(dir) = 0 THEN pos
              ELSE LookupPos(dir, Len(dir), Len(dir) \in oks, file_size)
    /\ UNCHANGED <<phase, file_size, server, dir, parsed>>

\* the indices of the entries called `name`
Matches(d, name) == { i \in 1..Len(d) : d[i].name = name }

\* the error PartialZipError::from(ZipError) makes of the library's error
FromZipError(e) == Err("ZipRsError", e, <<>>)

\* download(name): by_name found entry i (0: none), `io` is the outcome of
\* the stream reads the lookup and read_to_end perform.  On success the
\* entry's decompressed payload is returned, named here by the entry.
\* (usize::value_from(compressed_size) cannot fail on a 64-bit target.)
DownloadResult(d, i, io) ==
    IF i = 0 THEN FromZipError("FileNotFound")
    ELSE IF io = "fail" THEN FromZipError("Io")
    ELSE IF ~Supported(d[i].method) THEN FromZipError("UnsupportedArchive")
    ELSE Ok(d[i].compressed_size, <<>>, <<d[i].name, d[i].method>>)

Download(name, i, io) ==
    /\ phase = "ready"
    /\ IF Matches(dir, name) = {} THEN i = 0 ELSE i \in Matches(dir, name)
    /\ last' = Call("download", name, i, io, pos, OpName(last),
                    DownloadResult(dir, i, io))
    /\ pos' = IF i = 0 THEN pos ELSE LookupPos(dir, i, io = "ok", file_size)
    /\ UNCHANGED <<phase, file_size, server, dir, parsed, lists>>

Names == {"a.txt", "b.bin", "e.7z", "missing.txt"}

\* An open session: PartialZip::new succeeded with directory dir.
ArchiveInit ==
    /\ phase = "ready"
    /\ dir \in Dirs
    /\ file_size = ArchiveSize(dir)
    /\ pos = file_size
    /\ server = "ranged"
    /\ parsed = TRUE
    /\ last = NoCall
    /\ lists = <<>>

ArchiveNext ==
    \/ \E oks \in SUBSET (1..MaxEntries) : List(oks)
    \/ \E name \in Names, i \in 0..MaxEntries, io \in {"ok", "fail"} :
           Download(name, i, io)

SpecArchive == ArchiveInit /\ [][ArchiveNext]_vars

---------------------------------------------------------------------------
\* Properties of the range stream, over SpecStream.

\* C1 (as stated): after any sequence of successful seeks and reads,
\* position <= total_size.
C1_PositionWithinSize == pos <= file_size

\* C1 (amended): a read against a server that honours range requests never
\* moves the position past total_size (a position within the size stays
\* within it, a position at or past the end is left where it is), a
\* successful seek sets the position to exactly the value it returns, which
\* may exceed total_size, and the position always fits the unsigned word.
C1_ReadKeepsPositionWithinSize ==
    [][ /\ (last'.op = "read" /\ server = "ranged" /\ pos <= file_size)
            => pos' <= file_size
        /\ (last'.op = "read" /\ pos >= file_size) => pos' = pos
        /\ (last'.op = "seek" /\ last'.ok) => pos' = last'.val
        /\ pos' \in 0..UMax ]_vars

\* C1 witness: a read against a range-honouring server that was cut at the
\* end of the resource and left the position exactly at total_size.
C1_Witness ==
    /\ last.op = "read" /\ last.ok /\ server = "ranged"
    /\ last.val >= 1 /\ last.val < last.n
    /\ pos = file_size

\* what C2 promises of a read of L bytes at `start`
C2_Outcome(start, L) ==
    LET cnt == Min(L, file_size - start)
    IN  /\ last.wire = << <<start, Min(start + L - 1, file_size - 1)>> >>
        /\ last.ok
        /\ last.val = cnt
        /\ last.data = Slice(start, start + cnt - 1)
        /\ pos = start + cnt

\* the case C2 is about: a read of a non-empty buffer, right after
\* seek(FromStart(start)) with start < total_size, answered by a server
\* that honours the range
C2_Case ==
    /\ last.op = "read" /\ last.prev = "Start"
    /\ server = "ranged" /\ last.err # "Transport"
    /\ last.entryPos < file_size
    /\ last.n >= 1

C3_EndOfStreamRead ==
    (last.op = "read" /\ last.entryPos >= file_size)
        => (last.ok /\ last.val = 0 /\ last.data = <<>> /\ pos = last.entryPos)

\* C3 witness: read of a non-empty buffer right after
\* seek(FromStart(total_size)) on a non-empty resource.
C3_Witness ==
    /\ last.op = "read" /\ last.prev = "Start"
    /\ last.entryPos = file_size /\ file_size > 0
    /\ last.n >= 1 /\ last.ok

\* C5: for base = position (FromCurrent) or total_size (FromEnd) and every
\* signed offset, the minimum value included: if base + offset lies in
\* [0, 2^64-1] the seek succeeds, sets position to base + offset and returns
\* it; otherwise it fails with the invalid-seek error and leaves position
\* unchanged.
C5_RelativeSeekArithmetic ==
    (last.op = "seek" /\ last.style \in {"End", "Current"})
        => LET base == IF last.style = "End" THEN file_size ELSE last.entryPos
               target == base + last.n
           IN  IF target \in 0..UMax
               THEN last.ok /\ last.val = target /\ pos = target
               ELSE ~last.ok /\ last.err = "InvalidInput" /\ pos = last.entryPos

\* C8 (as stated): every read issues exactly one range request, in every
\* state of the stream, and a failed request is returned as that call's
\* error without a retry.
C8_ExactlyOneRequestPerRead ==
    last.op = "read"
        => /\ Len(last.wire) = 1
           /\ last.err = "Transport" => (~last.ok /\ pos = last.entryPos)

\* C8 (amended): every read issues at most one range request: exactly one
\* when position < total_size on entry and the byte-range computation
\* succeeds (a non-empty buffer whose length added to the position does not
\* overflow), none otherwise (end of stream, or a data error of the range
\* computation); a failed request is not retried and its error is returned
\* from that same call, the position unchanged.
C8_AtMostOneRequestPerRead ==
    last.op = "read"
        => /\ Len(last.wire) =
                  IF /\ last.entryPos < file_size
                     /\ last.n >= 1
                     /\ last.entryPos + last.n <= UMax
                  THEN 1 ELSE 0
           /\ last.err = "Transport"
                  => (~last.ok /\ Len(last.wire) = 1 /\ pos = last.entryPos)

\* C8 witness: a read whose one request failed in transport.
C8_Witness ==
    /\ last.op = "read" /\ last.err = "Transport"
    /\ Len(last.wire) = 1 /\ ~last.ok

\* C10: in a read entered with position < total_size, for every buffer
\* length, length 0 included, no checked operation of the byte-range
\* computation fails and the interval satisfies
\* start <= end <= total_size - 1: the data errors are unreachable.
C10_RangeComputationNeverFails ==
    (last.op = "read" /\ last.entryPos < file_size)
        => /\ last.err # "InvalidData"
           /\ Len(last.wire) = 1
           /\ last.wire[1][1] = last.entryPos
           /\ last.wire[1][1] <= last.wire[1][2]
           /\ last.wire[1][2] <= file_size - 1

---------------------------------------------------------------------------
\* Properties of construction, over SpecOpen.

\* the case C4 is about: new with require_range_support = true, the size
\* probe succeeded, and the `bytes=0-0` probe received a response
C4_Case ==
    /\ last.op = "new"
    /\ last.arg.url_ok /\ last.arg.must_ranged
    /\ last.arg.head.perform = "ok" /\ last.arg.head.length >= 0
    /\ last.arg.probe.perform = "ok"

\* whether the probe's response reports exactly 1 byte and status 206
C4_Passes == last.arg.probe.length = 1 /\ last.arg.probe.status = 206

\* C4 (as stated): for every response the probe receives, construction
\* fails with RangeNotSupported unless the response reports exactly 1 byte
\* of content and status 206, and in every failing case the directory parse
\* is never started.
C4_ProbeFailsWithRangeNotSupported ==
    (C4_Case /\ ~C4_Passes)
        => (~last.ok /\ last.err = "RangeNotSupported"
            /\ ~parsed /\ phase = "failed")

\* C4 (amended): for every response the probe receives, construction fails
\* unless the response reports exactly 1 byte of content and status 206:
\* with RangeNotSupported when the response declares a content length, and
\* with an invalid-data I/O error (wrapped as the zip error) when it
\* declares none; a server answering 200 with its full content length yields
\* RangeNotSupported; in every failing case the directory parse is never
\* started.
C4_ProbeFailsUnlessOneByte206 ==
    (C4_Case /\ ~C4_Passes)
        => /\ ~last.ok /\ ~parsed /\ phase = "failed"
           /\ IF last.arg.probe.length < 0
              THEN last.err = "ZipRsError" /\ last.cause = "Io(InvalidData)"
              ELSE last.err = "RangeNotSupported"

\* C4 witness: a one-byte resource on a server that answers the ranged probe
\* with 200 and the full body: the declared length is 1, the status is not
\* 206, and construction failed with RangeNotSupported before any parse.
C4_Witness ==
    /\ C4_Case
    /\ last.arg.head.length = 1
    /\ last.arg.probe.length = 1 /\ last.arg.probe.status = 200
    /\ last.err = "RangeNotSupported" /\ ~parsed

---------------------------------------------------------------------------
\* Properties of the archive session, over SpecArchive.

\* C6: download(name) fails with the crate's own FileNotFound error kind
\* whenever no entry with exactly that name exists in the directory.
C6_MissingNameIsFileNotFound ==
    (last.op = "download" /\ Matches(dir, last.style) = {})
        => (~last.ok /\ last.err = "FileNotFound")

\* C7: download(name) of an existing entry whose declared method is not
\* store, deflate, bzip2 or zstd fails with UnsupportedCompression(method)
\* carrying that entry's method (the stream reads of the lookup succeeding).
C7_UnsupportedMethodIsUnsupportedCompression ==
    (/\ last.op = "download" /\ last.n # 0 /\ last.arg = "ok"
     /\ dir[last.n].method \notin {"Stored", "Deflated", "Bzip2", "Zstd"})
        => (~last.ok /\ last.err = "UnsupportedCompression"
            /\ last.cause = dir[last.n].method)

C9_Kth(ks, k) == CHOOSE i \in ks : Cardinality({j \in ks : j < i}) = k - 1

===========================================================================
